---- MODULE Spec2Model ----
(***************************************************************************)
(* Model of the quasar program's instruction processor                     *)
(* (src/src/processor.rs).                                                 *)
(*                                                                         *)
(* One action per instruction handler.  A handler is an operator that      *)
(* takes the account data it loads and the call's arguments, and returns   *)
(* the result it returns together with the account data as the handler     *)
(* left it and the cross-program invocations it dispatched, in order.      *)
(* The host commits account data only when the instruction returns Ok: a   *)
(* returned error or a panic fails the transaction and the host discards   *)
(* what the handler wrote.  `last` keeps what the last call did, the       *)
(* handler's own writes included, so that both can be told apart.          *)
(***************************************************************************)
EXTENDS Integers, Sequences, FiniteSets, TLC

\* Capacity of the two registries (state.rs is not part of the sources;
\* the model is checked for small capacities).
MAX_BASE == 2
MAX_LEV == 2

VARIABLES
    group,          \* data of the group account (QuasarGroup), committed
    oracle_magic,   \* StubOracle.magic of the oracle account this program owns
    last,           \* the last instruction: result, invocations (by name), writes
    price           \* a read_oracle evaluation: its arguments, then its result

vars == <<group, oracle_magic, last, price>>

----------------------------------------------------------------------------
(* Identities (Pubkey).  Every key is a pair <<kind, n>>.                   *)

Key(kind, n) == <<kind, n>>

ProgramId == Key("program", 0)
OtherProgramId == Key("program", 1)
\* system_program::id() is the all-zero key, which is Pubkey::default()
SystemProgramId == Key("system", 0)
DefaultKey == SystemProgramId
TokenProgramId == Key("spl_token", 0)
RentSysvarId == Key("sysvar_rent", 0)
FakeProgramKey == Key("fake", 0)
MangoProgramIds == {Key("mango", 1), Key("mango", 2)}
MangoGroupKey == Key("mango_group", 1)
MangoAccountKeys == {Key("mango_account", 1), Key("mango_account", 2)}
PerpMarketKey == Key("perp_market", 1)

GroupKey == Key("group", 1)
ForeignGroupKey == Key("group", 2)
AdminKeys == {Key("admin", 1), Key("admin", 2)}

\* Asset mints: one more than the base registry holds, and an account that
\* holds no initialized Mint.
BaseMintKeys == {Key("mint", i) : i \in 1..(MAX_BASE + 1)}
NotAMintKey == Key("mint", 0)

PythOracleKey == Key("oracle", 1)
StubOracleKey == Key("oracle", 2)
ForeignOracleKey == Key("oracle", 3)
UserKey == Key("user", 1)
NewAccountKey == Key("new_account", 1)

TargetLeverages == {-1, 3}
Nonces == 0..2
Quantities == {0, 5}

----------------------------------------------------------------------------
(* Results.  An error carries its code and the source line of the check    *)
(* that raised it; a panic aborts the program.                             *)

Ok == [kind |-> "Ok", code |-> "", line |-> 0]
Err(code, line) == [kind |-> "Err", code |-> code, line |-> line]
Abort(line) == [kind |-> "Abort", code |-> "panic", line |-> line]

----------------------------------------------------------------------------
(* Group record (state.rs, spec section 3).                                *)

EmptyBaseToken == [mint |-> DefaultKey, decimals |-> 0, oracle |-> DefaultKey]

EmptyLeverageToken ==
    [mint |-> DefaultKey, base_token_mint |-> DefaultKey, target_leverage |-> 0,
     mango_account |-> DefaultKey, mango_perp_market |-> DefaultKey]

ZeroMetaData == [data_type |-> 0, version |-> 0, is_initialized |-> FALSE]

\* A freshly allocated account is all zero.
ZeroGroup ==
    [meta_data |-> ZeroMetaData,
     signer_nonce |-> 0,
     signer_key |-> DefaultKey,
     admin_key |-> DefaultKey,
     mango_program_id |-> DefaultKey,
     num_base_tokens |-> 0,
     base_tokens |-> [i \in 0..(MAX_BASE - 1) |-> EmptyBaseToken],
     num_leverage_tokens |-> 0,
     leverage_tokens |-> [i \in 0..(MAX_LEV - 1) |-> EmptyLeverageToken]]

\* BaseToken::is_empty / LeverageToken::is_empty: the slot is all zero.
is_empty_base(slot) == slot = EmptyBaseToken
is_empty_leverage(slot) == slot = EmptyLeverageToken

\* QuasarGroup::find_base_token_index: lookup by asset identity.
find_base_token_index(g, mint_pk) ==
    LET hits == {i \in DOMAIN g.base_tokens : g.base_tokens[i].mint = mint_pk}
    IN IF hits = {} THEN -1 ELSE CHOOSE i \in hits : \A j \in hits : i <= j

\* QuasarGroup::find_leverage_token_index: lookup by (base token, target).
find_leverage_token_index(g, base_pk, target) ==
    LET hits == {i \in DOMAIN g.leverage_tokens :
                    /\ g.leverage_tokens[i].base_token_mint = base_pk
                    /\ g.leverage_tokens[i].target_leverage = target}
    IN IF hits = {} THEN -1 ELSE CHOOSE i \in hits : \A j \in hits : i <= j

\* MetaData::new(DataType::QuasarGroup, 0, true)
NewGroupMetaData == [data_type |-> 1, version |-> 0, is_initialized |-> TRUE]

\* The data behind an account key: only GroupKey is a group of this program.
GroupData(g, key) == IF key = GroupKey THEN g ELSE ZeroGroup

\* QuasarGroup::load_mut_checked / load_checked: the account is owned by this
\* program and holds an initialized group.
load_checked(ai, g, line) ==
    IF ai.owner # ProgramId THEN Err("InvalidGroupOwner", line)
    ELSE IF ~GroupData(g, ai.key).meta_data.is_initialized
         THEN Err("InvalidAccountState", line)
    ELSE Ok

----------------------------------------------------------------------------
(* Derived authority (utils.rs): a program address of (group, nonce).      *)
(* create_program_address fails for the seeds whose hash is on the curve.  *)

DerivableNonce(n) == n # 0

gen_signer_key(nonce, group_pk) ==
    Key("pda", 10 * group_pk[2] + nonce)

gen_signer_seeds(nonce, group_pk) == <<group_pk, nonce>>

PdaKeys == {gen_signer_key(n, GroupKey) : n \in {1, 2}}

----------------------------------------------------------------------------
(* What a handler returns to the dispatcher.                               *)

Ret(result, g, om, cpis) ==
    [result |-> result, group |-> g, oracle_magic |-> om, cpis |-> cpis]

----------------------------------------------------------------------------
(* init_quasar_group, processor.rs 76-115                                  *)

\* 101-104: the derived authority of (group, nonce) is the supplied signer
init_signer_check_mut(a) == TRUE
init_signer_check(a) ==
    gen_signer_key(a.signer_nonce, a.quasar_group_ai.key) = a.signer_key

\* 96-99: the group is not initialized yet
init_fresh_check_mut(g) == TRUE
init_fresh_check(g) == ~g.meta_data.is_initialized

init_quasar_group(g0, om, a) ==
    LET g == GroupData(g0, a.quasar_group_ai.key) IN
    IF a.quasar_group_ai.owner # ProgramId
        THEN Ret(Err("InvalidGroupOwner", 85), g0, om, <<>>)
    ELSE IF ~a.quasar_group_ai.rent_exempt
        THEN Ret(Err("GroupNotRentExempt", 91), g0, om, <<>>)
    ELSE IF ~init_fresh_check(g)
        THEN Ret(Err("Default", 96), g0, om, <<>>)
    ELSE IF ~DerivableNonce(a.signer_nonce)
        THEN Ret(Err("InvalidSeeds", 102), g0, om, <<>>)
    ELSE IF ~init_signer_check(a)
        THEN Ret(Err("InvalidSignerKey", 101), g0, om, <<>>)
    ELSE
        LET g1 == [g EXCEPT !.signer_nonce = a.signer_nonce,
                            !.signer_key = a.signer_key,
                            !.mango_program_id = a.mango_program_key]
        IN  IF ~a.admin_ai.is_signer
                THEN Ret(Err("Default", 109), g1, om, <<>>)
            ELSE Ret(Ok,
                     [g1 EXCEPT !.admin_key = a.admin_ai.key,
                                !.meta_data = NewGroupMetaData],
                     om, <<>>)

----------------------------------------------------------------------------
(* Accounts other than the group that the handlers read.                   *)

\* Mint::unpack (158): the account holds an initialized Mint
is_mint(key) == key \in BaseMintKeys
\* Mint.decimals of an asset mint
MintDecimals(key) == 5 + key[2]

\* StubOracle.magic as add_base_token sets it (147)
StubMagic == 1869049421

\* The price-source accounts: a Pyth price account, an account of this
\* program that is a stub once its magic is set, and another program's
\* account that holds nothing.
OracleOwner(key) == IF key = StubOracleKey THEN ProgramId ELSE OtherProgramId
OracleMagic(om, key) == IF key = StubOracleKey THEN om ELSE 0

\* oracle.rs: classification by what the account holds
determine_oracle_type(om, key) ==
    IF key = PythOracleKey THEN "Pyth"
    ELSE IF OracleMagic(om, key) = StubMagic THEN "Stub"
    ELSE "Unknown"

\* StubOracle::load_and_init: a fresh account owned by this program
load_and_init(om, key) ==
    IF OracleOwner(key) # ProgramId THEN Err("InvalidOwner", 146)
    ELSE IF OracleMagic(om, key) # 0 THEN Err("InvalidAccountState", 146)
    ELSE Ok

----------------------------------------------------------------------------
(* Cross-program invocations, processor.rs 334-496.  `fails` names the     *)
(* invocation the callee rejects in this call ("none": all succeed).       *)

Cpi(program_id, ix, accounts, signers, seeds, data) ==
    [program_id |-> program_id, ix |-> ix, accounts |-> accounts,
     signers |-> signers, seeds |-> seeds, data |-> data]

CpiResult(ix, fails) == IF fails = ix THEN Err("CpiFailed", 0) ELSE Ok

\* What a helper returns: its result and the invocations it dispatched.
HRet(result, cpis) == [result |-> result, cpis |-> cpis]

\* 334-364
create_account(signer_key, new_account_key, space, owner_key, system_program_key, fails) ==
    IF system_program_key # SystemProgramId
        THEN HRet(Err("InvalidAccount", 343), <<>>)
    ELSE HRet(CpiResult("create_account", fails),
              <<Cpi(SystemProgramId, "create_account",
                    <<signer_key, new_account_key>>, <<signer_key, new_account_key>>,
                    <<>>, <<space, owner_key>>)>>)

\* 366-391
init_mango_account(mango_program_key, mango_group_key, mango_account_key, owner_key, signers_seeds, fails) ==
    HRet(CpiResult("init_mango_account", fails),
         <<Cpi(mango_program_key, "init_mango_account",
               <<mango_group_key, mango_account_key, owner_key>>, <<owner_key>>,
               signers_seeds, <<>>)>>)

\* 393-437
deposit_to_mango_account(mango_program_key, mango_group_key, mango_account_key, owner_key, token_program_key, signers_seeds, quantity, fails) ==
    HRet(CpiResult("deposit", fails),
         <<Cpi(mango_program_key, "deposit",
               <<mango_group_key, mango_account_key, owner_key, token_program_key>>,
               <<owner_key>>, signers_seeds, <<quantity>>)>>)

\* spl_token::state::Mint::LEN (470) and state::LEVERGAE_TOKEN_DECIMALS (239)
MintLen == "Mint::LEN"
LeverageTokenDecimals == "LEVERGAE_TOKEN_DECIMALS"

\* 439-496
create_and_initialize_mint_account(signer_key, mint_key, authority_key, token_program_key, system_program_key, rent_key, signer_seeds, decimals, fails) ==
    IF token_program_key # TokenProgramId
        THEN HRet(Err("InvalidAccount", 449), <<>>)
    ELSE IF system_program_key # SystemProgramId
        THEN HRet(Err("InvalidAccount", 455), <<>>)
    ELSE IF rent_key # RentSysvarId
        THEN HRet(Err("InvalidAccount", 461), <<>>)
    ELSE
        LET c == create_account(signer_key, mint_key, MintLen, token_program_key,
                                system_program_key, fails)
        IN  IF c.result.kind # "Ok" THEN c
            ELSE HRet(CpiResult("initialize_mint", fails),
                      c.cpis \o
                      <<Cpi(token_program_key, "initialize_mint",
                            <<mint_key, rent_key>>, <<>>, signer_seeds,
                            <<authority_key, authority_key, decimals>>)>>)

----------------------------------------------------------------------------
(* add_base_token, processor.rs 117-168                                    *)

\* 125-130: the admin signed and is the stored admin
admin_check_mut(g, admin_ai) == admin_ai.is_signer
admin_check(g, admin_ai) == admin_ai.is_signer /\ admin_ai.key = g.admin_key

\* 132-136: no base token has this mint
abt_no_duplicate_mut(g, mint_key) == TRUE
abt_no_duplicate(g, mint_key) == find_base_token_index(g, mint_key) = -1

\* 159-165: the append
abt_append_mut(g, mint_key, oracle_key) ==
    [g EXCEPT !.base_tokens[0] =
                  [mint |-> mint_key, decimals |-> MintDecimals(mint_key),
                   oracle |-> oracle_key],
              !.num_base_tokens = @ + 1]
abt_append_zero_decimals(g, mint_key, oracle_key) ==
    [g EXCEPT !.base_tokens[g.num_base_tokens] =
                  [mint |-> mint_key, decimals |-> 0, oracle |-> oracle_key],
              !.num_base_tokens = @ + 1]
abt_append(g, mint_key, oracle_key) ==
    [g EXCEPT !.base_tokens[g.num_base_tokens] =
                  [mint |-> mint_key, decimals |-> MintDecimals(mint_key),
                   oracle |-> oracle_key],
              !.num_base_tokens = @ + 1]

add_base_token(g0, om, a) ==
    LET g == GroupData(g0, a.quasar_group_ai.key)
        lc == load_checked(a.quasar_group_ai, g0, 124)
    IN
    IF lc.kind # "Ok" THEN Ret(lc, g0, om, <<>>)
    ELSE IF ~a.admin_ai.is_signer
        THEN Ret(Err("InvalidSignerKey", 125), g0, om, <<>>)
    ELSE IF ~admin_check(g, a.admin_ai)
        THEN Ret(Err("InvalidSignerKey", 126), g0, om, <<>>)
    ELSE IF ~abt_no_duplicate(g, a.mint_key)
        THEN Ret(Err("Default", 133), g0, om, <<>>)
    ELSE
        \* 138-149: a Pyth oracle is stored by key; any other is made a stub
        LET init == IF determine_oracle_type(om, a.oracle_key) = "Pyth" THEN Ok
                    ELSE load_and_init(om, a.oracle_key)
            om1 == IF determine_oracle_type(om, a.oracle_key) = "Pyth" THEN om
                   ELSE StubMagic
        IN
        IF init.kind # "Ok" THEN Ret(init, g0, om, <<>>)
        \* 154: indexing the array at MAX_BASE panics
        ELSE IF g.num_base_tokens \notin DOMAIN g.base_tokens
            THEN Ret(Abort(154), g0, om1, <<>>)
        ELSE IF ~is_empty_base(g.base_tokens[g.num_base_tokens])
            THEN Ret(Err("Default", 153), g0, om1, <<>>)
        ELSE IF ~is_mint(a.mint_key)
            THEN Ret(Err("InvalidAccountData", 158), g0, om1, <<>>)
        ELSE Ret(Ok, abt_append(g, a.mint_key, a.oracle_key), om1, <<>>)

----------------------------------------------------------------------------
(* add_leverage_token, processor.rs 170-252                                *)

\* 199-205: no leverage token has this (base token, target leverage)
alt_no_duplicate_mut(g, base_key, target) == TRUE
alt_no_duplicate(g, base_key, target) ==
    find_leverage_token_index(g, base_key, target) = -1

\* 191-197: the base token is registered
alt_base_exists_mut(g, base_key) == TRUE
alt_base_exists_any_mint(g, base_key) == is_mint(base_key)
alt_base_exists(g, base_key) == find_base_token_index(g, base_key) # -1

\* 215-219: the supplied authority is the stored signer key
alt_signer_check_mut(g, pda_key) == TRUE
alt_signer_check(g, pda_key) == pda_key = g.signer_key

\* 242-249: the append
alt_append_overwrite(g, a) ==
    [g EXCEPT !.leverage_tokens[0] =
                  [mint |-> a.mint_key,
                   base_token_mint |-> a.base_token_mint_key,
                   target_leverage |-> a.target_leverage,
                   mango_account |-> a.mango_account_key,
                   mango_perp_market |-> a.mango_perp_market_key],
              !.num_leverage_tokens = @ + 1]
alt_append(g, a) ==
    [g EXCEPT !.leverage_tokens[g.num_leverage_tokens] =
                  [mint |-> a.mint_key,
                   base_token_mint |-> a.base_token_mint_key,
                   target_leverage |-> a.target_leverage,
                   mango_account |-> a.mango_account_key,
                   mango_perp_market |-> a.mango_perp_market_key],
              !.num_leverage_tokens = @ + 1]

\* 222-251: the invocations, then the append
alt_invoke_and_append_mut(g, om, a) ==
    LET seeds == <<gen_signer_seeds(g.signer_nonce, a.quasar_group_ai.key)>>
        m == init_mango_account(a.mango_program_key, a.mango_group_key,
                                a.mango_account_key, a.pda_key, seeds, a.fails)
        c == create_and_initialize_mint_account(
                 a.admin_ai.key, a.mint_key, a.pda_key, a.token_program_key,
                 a.system_program_key, a.rent_key, seeds, LeverageTokenDecimals, a.fails)
    IN  IF m.result.kind # "Ok" THEN Ret(m.result, alt_append(g, a), om, m.cpis)
        ELSE IF c.result.kind # "Ok"
            THEN Ret(c.result, alt_append(g, a), om, m.cpis \o c.cpis)
        ELSE Ret(Ok, alt_append(g, a), om, m.cpis \o c.cpis)
alt_invoke_and_append(g, om, a) ==
    LET seeds == <<gen_signer_seeds(g.signer_nonce, a.quasar_group_ai.key)>>
        m == init_mango_account(a.mango_program_key, a.mango_group_key,
                                a.mango_account_key, a.pda_key, seeds, a.fails)
        c == create_and_initialize_mint_account(
                 a.admin_ai.key, a.mint_key, a.pda_key, a.token_program_key,
                 a.system_program_key, a.rent_key, seeds, LeverageTokenDecimals, a.fails)
    IN  IF m.result.kind # "Ok" THEN Ret(m.result, g, om, m.cpis)
        ELSE IF c.result.kind # "Ok" THEN Ret(c.result, g, om, m.cpis \o c.cpis)
        ELSE Ret(Ok, alt_append(g, a), om, m.cpis \o c.cpis)

add_leverage_token(g0, om, a) ==
    LET g == GroupData(g0, a.quasar_group_ai.key)
        lc == load_checked(a.quasar_group_ai, g0, 183)
    IN
    IF lc.kind # "Ok" THEN Ret(lc, g0, om, <<>>)
    ELSE IF ~a.admin_ai.is_signer
        THEN Ret(Err("SignerNecessary", 184), g0, om, <<>>)
    ELSE IF ~admin_check(g, a.admin_ai)
        THEN Ret(Err("InvalidAdminKey", 185), g0, om, <<>>)
    ELSE IF ~alt_base_exists(g, a.base_token_mint_key)
        THEN Ret(Err("InvalidAccount", 192), g0, om, <<>>)
    ELSE IF ~alt_no_duplicate(g, a.base_token_mint_key, a.target_leverage)
        THEN Ret(Err("Default", 200), g0, om, <<>>)
    \* 211: indexing the array at MAX_LEV panics
    ELSE IF g.num_leverage_tokens \notin DOMAIN g.leverage_tokens
        THEN Ret(Abort(211), g0, om, <<>>)
    ELSE IF ~is_empty_leverage(g.leverage_tokens[g.num_leverage_tokens])
        THEN Ret(Err("Default", 210), g0, om, <<>>)
    ELSE IF ~alt_signer_check(g, a.pda_key)
        THEN Ret(Err("InvalidSignerKey", 215), g0, om, <<>>)
    ELSE alt_invoke_and_append(g, om, a)

----------------------------------------------------------------------------
(* mint_leverage_token 254-290, redeem_leverage_token 292-299,             *)
(* test_create_account 310-331                                             *)

mint_leverage_token_signed(g0, om, a) ==
    LET lc == load_checked(a.quasar_group_ai, g0, 266)
        g == GroupData(g0, a.quasar_group_ai.key)
    IN
    IF lc.kind # "Ok" THEN Ret(lc, g0, om, <<>>)
    ELSE
        LET d == deposit_to_mango_account(
                     a.mango_program_key, a.mango_group_key, a.mango_account_key,
                     a.owner_key, a.token_program_key,
                     <<gen_signer_seeds(g.signer_nonce, a.quasar_group_ai.key)>>,
                     a.quantity, a.fails)
        IN Ret(d.result, g0, om, d.cpis)
mint_leverage_token(g0, om, a) ==
    LET lc == load_checked(a.quasar_group_ai, g0, 266) IN
    IF lc.kind # "Ok" THEN Ret(lc, g0, om, <<>>)
    ELSE
        LET d == deposit_to_mango_account(
                     a.mango_program_key, a.mango_group_key, a.mango_account_key,
                     a.owner_key, a.token_program_key, <<<<>>>>, a.quantity, a.fails)
        IN Ret(d.result, g0, om, d.cpis)

redeem_leverage_token_checked(g0, om, a) ==
    LET lc == load_checked(a.quasar_group_ai, g0, 297) IN
    IF lc.kind # "Ok" THEN Ret(lc, g0, om, <<>>) ELSE Ret(Ok, g0, om, <<>>)
redeem_leverage_token(g0, om, a) == Ret(Ok, g0, om, <<>>)

test_create_account(g0, om, a) ==
    LET c == create_account(a.signer_key, a.new_account_key, 10, a.owner_key,
                            a.system_program_key, a.fails)
    IN Ret(c.result, g0, om, c.cpis)

----------------------------------------------------------------------------
(* Wide integers.  The program's u64, i64 and 128-bit fixed-point values   *)
(* exceed the 32-bit integers TLC evaluates, so a magnitude is a sequence  *)
(* of limbs, least significant first, without leading zeros (<<>> is       *)
(* zero), and a signed value is a sign with a magnitude.                   *)

LimbBits == 8
LimbBase == 2 ^ LimbBits

RECURSIVE BFromNat(_)
BFromNat(n) == IF n = 0 THEN <<>> ELSE <<n % LimbBase>> \o BFromNat(n \div LimbBase)

\* limb i of a, zero beyond its length
Limb(a, i) == IF i \in DOMAIN a THEN a[i] ELSE 0

\* without leading zero limbs
BNorm(s) ==
    LET nz == {i \in DOMAIN s : s[i] # 0}
    IN  IF nz = {} THEN <<>>
        ELSE SubSeq(s, 1, CHOOSE i \in nz : \A j \in nz : j <= i)

BLess(a, b) ==
    IF Len(a) # Len(b) THEN Len(a) < Len(b)
    ELSE LET diff == {i \in 1..Len(a) : a[i] # b[i]}
         IN  diff # {} /\ LET top == CHOOSE i \in diff : \A j \in diff : j <= i
                          IN  a[top] < b[top]

\* a + b: the carry into limb i comes from a lower limb that overflows, through
\* limbs that are full
BAdd(a, b) ==
    LET n == (IF Len(a) > Len(b) THEN Len(a) ELSE Len(b)) + 1
        sum == [i \in 1..n |-> Limb(a, i) + Limb(b, i)]
        carry == [i \in 1..n |->
                     IF \E j \in 1..(i - 1) :
                            /\ sum[j] >= LimbBase
                            /\ \A l \in (j + 1)..(i - 1) : sum[l] = LimbBase - 1
                     THEN 1 ELSE 0]
    IN  BNorm([i \in 1..n |-> (sum[i] + carry[i]) % LimbBase])

\* a - b for a >= b: the borrow from limb i is taken by a lower limb that is
\* short, through limbs that are equal
BSub(a, b) ==
    LET n == Len(a)
        borrow == [i \in 1..n |->
                      IF \E j \in 1..(i - 1) :
                             /\ a[j] < Limb(b, j)
                             /\ \A l \in (j + 1)..(i - 1) : a[l] = Limb(b, l)
                      THEN 1 ELSE 0]
    IN  BNorm([i \in 1..n |-> (a[i] - Limb(b, i) - borrow[i] + 2 * LimbBase) % LimbBase])

\* a * 2^(LimbBits * n), and a \div 2^(LimbBits * n)
BShiftLeft(a, n) == IF a = <<>> THEN <<>> ELSE [i \in 1..n |-> 0] \o a
BShiftRight(a, n) == IF Len(a) <= n THEN <<>> ELSE SubSeq(a, n + 1, Len(a))

\* a * k for a small k (k <= LimbBase): low and high halves of the limb products
BMulSmall(a, k) ==
    BAdd([i \in DOMAIN a |-> (a[i] * k) % LimbBase],
         BShiftLeft(BNorm([i \in DOMAIN a |-> (a[i] * k) \div LimbBase]), 1))

RECURSIVE BMul(_, _)
BMul(a, b) ==
    IF a = <<>> \/ b = <<>> THEN <<>>
    ELSE LET rest == BMul(a, Tail(b))
         IN  IF rest = <<>> THEN BMulSmall(a, Head(b))
             ELSE BAdd(BMulSmall(a, Head(b)), BShiftLeft(rest, 1))

RECURSIVE BPow(_, _)
BPow(k, n) ==
    IF n = 0 THEN <<1>>
    ELSE LET p == BPow(k, n - 1) IN IF p = <<>> THEN <<>> ELSE BMulSmall(p, k)

\* 2^n
BPow2(n) == BShiftLeft(<<2 ^ (n % LimbBits)>>, n \div LimbBits)

\* <<r \div b, r % b>> for b # 0 and r < b * LimbBase: the quotient is one
\* limb, found between the bounds that the leading limbs of r and b give
BDivLimb(r, b) ==
    LET n == Len(b)
        b2 == b[n] * LimbBase + Limb(b, n - 1)
        r3 == (Limb(r, n + 1) * LimbBase + Limb(r, n)) * LimbBase + Limb(r, n - 1)
        lo == r3 \div (b2 + 1)
        hi == IF (r3 + 1) \div b2 < LimbBase THEN (r3 + 1) \div b2 ELSE LimbBase - 1
        d == CHOOSE x \in lo..hi :
                 /\ ~BLess(r, BMulSmall(b, x))
                 /\ BLess(r, BMulSmall(b, x + 1))
    IN  <<d, BSub(r, BMulSmall(b, d))>>

\* <<a \div b, a % b>> for b # 0: long division, most significant limb first
RECURSIVE BDivMod(_, _)
BDivMod(a, b) ==
    IF a = <<>> THEN <<(<<>>), (<<>>)>>
    ELSE LET h == BDivMod(Tail(a), b)
             d == BDivLimb(BNorm(<<Head(a)>> \o h[2]), b)
         IN  IF h[2] = <<>> /\ Head(a) = 0 THEN <<BShiftLeft(h[1], 1), (<<>>)>>
             ELSE <<BNorm(<<d[1]>> \o h[1]), d[2]>>

\* A signed integer (i64: Price.agg.price).
IntVal(neg, mag) == [neg |-> neg /\ mag # <<>>, mag |-> mag]
\* c * 10^z
Dec(c, z) ==
    IntVal(c < 0, BMul(BFromNat(IF c < 0 THEN -c ELSE c), BPow(10, z)))

----------------------------------------------------------------------------
(* fixed::types::I80F48 (21): a signed 128-bit number of 2^-48 units.      *)

FracBits == 48
FracLimbs == FracBits \div LimbBits

Fixed(neg, bits) == [neg |-> neg /\ bits # <<>>, bits |-> bits]
None == [none |-> TRUE]

\* the bits fit a signed 128-bit integer
FitsI128(neg, bits) ==
    BLess(bits, BPow2(127)) \/ (neg /\ bits = BPow2(127))

\* I80F48::from_num of an i64 or a u64: always representable
from_num(v) == Fixed(v.neg, BShiftLeft(v.mag, FracLimbs))

\* I80F48::checked_div: the quotient truncated to 2^-48, None on division by
\* zero or overflow
checked_div(a, b) ==
    IF b.bits = <<>> THEN None
    ELSE LET q == BDivMod(BShiftLeft(a.bits, FracLimbs), b.bits)[1]
             neg == a.neg # b.neg
         IN  IF FitsI128(neg, q) THEN Fixed(neg, q) ELSE None

\* I80F48::checked_mul: the product truncated to 2^-48, None on overflow
checked_mul(a, b) ==
    LET q == BShiftRight(BMul(a.bits, b.bits), FracLimbs)
        neg == a.neg # b.neg
    IN  IF FitsI128(neg, q) THEN Fixed(neg, q) ELSE None

----------------------------------------------------------------------------
(* read_oracle, processor.rs 498-529                                       *)

I32Max == 2147483647

\* i32::checked_add, i32::checked_sub
checked_add_i32(x, y) ==
    IF (y > 0 /\ x > I32Max - y) \/ (y < 0 /\ x < (-I32Max - 1) - y) THEN None
    ELSE [none |-> FALSE, v |-> x + y]
checked_sub_i32(x, y) ==
    IF (y < 0 /\ x > I32Max + y) \/ (y > 0 /\ x < (-I32Max - 1) + y) THEN None
    ELSE [none |-> FALSE, v |-> x - y]

\* 507-511: quote_decimals + expo - quote_decimals, each step checked
price_decimals_no_sub(quote_decimals, expo) == checked_add_i32(quote_decimals, expo)
price_decimals(quote_decimals, expo) ==
    LET sum == checked_add_i32(quote_decimals, expo)
    IN  IF sum.none THEN None ELSE checked_sub_i32(sum.v, quote_decimals)

\* 10u64.pow(n) (513): a power that does not fit 64 bits panics in a build
\* with overflow checks and wraps in a build without.
pow_u64(n, overflow_checks) ==
    LET p == BPow(10, n)
    IN  IF BLess(p, BPow2(64)) THEN IntVal(FALSE, p)
        ELSE IF overflow_checks THEN None
        ELSE IntVal(FALSE, BDivMod(p, BPow2(64))[2])

Abs(x) == IF x < 0 THEN -x ELSE x

PriceOk(value) == [kind |-> "Ok", code |-> "", line |-> 0, price |-> value]

\* `oracle` is the price-source account: its key, its magic when it is an
\* account of this program, and the Price (agg.price, expo) or the stub
\* price it holds.
read_oracle(base_token, oracle, overflow_checks) ==
    LET oracle_type == determine_oracle_type(oracle.magic, oracle.key) IN
    IF oracle_type = "Pyth" THEN
        LET value == from_num(oracle.agg_price)
            decimals == price_decimals(base_token.decimals, oracle.expo)
        IN
        IF decimals.none THEN Abort(509)
        ELSE
            LET adj == pow_u64(Abs(decimals.v), overflow_checks) IN
            IF adj = None THEN Abort(513)
            ELSE IF decimals.v < 0
                THEN LET q == checked_div(value, from_num(adj))
                     IN  IF q = None THEN Abort(515) ELSE PriceOk(q)
            ELSE LET q == checked_mul(value, from_num(adj))
                 IN  IF q = None THEN Abort(517) ELSE PriceOk(q)
    ELSE IF oracle_type = "Stub" THEN PriceOk(from_num(oracle.stub_price))
    ELSE Abort(526)

----------------------------------------------------------------------------
(* The calls the model makes.  Account lists are positional in the code;   *)
(* here each argument carries the name the handler gives it.  Each set is  *)
(* a product over the arguments that decide what a valid call does, and    *)
(* the calls that differ from a valid one in one account.                  *)

GoodGroupAi == [key |-> GroupKey, owner |-> ProgramId, rent_exempt |-> TRUE]
ForeignGroupAi == [key |-> ForeignGroupKey, owner |-> OtherProgramId, rent_exempt |-> TRUE]
PoorGroupAi == [key |-> GroupKey, owner |-> ProgramId, rent_exempt |-> FALSE]

SignedAdminAis == {[key |-> k, is_signer |-> TRUE] : k \in AdminKeys}
UnsignedAdminAis == {[key |-> k, is_signer |-> FALSE] : k \in AdminKeys}
AdminAis == SignedAdminAis \cup UnsignedAdminAis

DerivableNonces == {n \in Nonces : DerivableNonce(n)}

InitArgsValid ==
    {[quasar_group_ai |-> GoodGroupAi, signer_key |-> gen_signer_key(n, GroupKey),
      admin_ai |-> [key |-> Key("admin", n), is_signer |-> TRUE],
      mango_program_key |-> Key("mango", n), signer_nonce |-> n] : n \in DerivableNonces}

InitArgs ==
    InitArgsValid
    \cup {[a EXCEPT !.quasar_group_ai = g] : a \in InitArgsValid,
                                             g \in {ForeignGroupAi, PoorGroupAi}}
    \cup {[a EXCEPT !.signer_nonce = n] : a \in InitArgsValid, n \in Nonces}
    \cup {[a EXCEPT !.signer_key = k] : a \in InitArgsValid, k \in PdaKeys}
    \cup {[a EXCEPT !.admin_ai.is_signer = FALSE] : a \in InitArgsValid}

\* Asset identities are opaque to the code, which only compares them: a call
\* offers every registered asset, the lowest and the highest unregistered
\* one, and an account that is no mint.
OfferedMintKeys(g) ==
    LET reg == {k \in BaseMintKeys : find_base_token_index(g, k) # -1}
        free == BaseMintKeys \ reg
        lowest == {k \in free : \A j \in free : k[2] <= j[2]}
        highest == {k \in free : \A j \in free : k[2] >= j[2]}
    IN  reg \cup lowest \cup highest
            \cup {NotAMintKey}

AddBaseArgs(g) ==
    [quasar_group_ai : {GoodGroupAi}, mint_key : OfferedMintKeys(g),
     oracle_key : {PythOracleKey}, admin_ai : SignedAdminAis]
    \cup
    [quasar_group_ai : {GoodGroupAi}, mint_key : {Key("mint", 1), NotAMintKey},
     oracle_key : {StubOracleKey, ForeignOracleKey}, admin_ai : SignedAdminAis]
    \cup [quasar_group_ai : {ForeignGroupAi}, mint_key : {Key("mint", 1)},
          oracle_key : {StubOracleKey}, admin_ai : SignedAdminAis]
    \cup [quasar_group_ai : {GoodGroupAi}, mint_key : {Key("mint", 1)},
          oracle_key : {PythOracleKey, StubOracleKey}, admin_ai : UnsignedAdminAis]

FailPoints == {"none", "init_mango_account", "create_account", "initialize_mint"}

\* The assets the model asks leverage tokens for.
LevBaseMintKeys == {Key("mint", 1), Key("mint", 2)}

\* A call by administrator n, who supplies the authority derived with nonce n.
AddLevCall(n, base_key, target, fails) ==
    [quasar_group_ai |-> GoodGroupAi, mint_key |-> Key("levmint", 1),
     base_token_mint_key |-> base_key, mango_program_key |-> Key("mango", n),
     mango_group_key |-> MangoGroupKey, mango_account_key |-> Key("mango_account", 1),
     mango_perp_market_key |-> PerpMarketKey,
     system_program_key |-> SystemProgramId, token_program_key |-> TokenProgramId,
     rent_key |-> RentSysvarId,
     admin_ai |-> [key |-> Key("admin", n), is_signer |-> TRUE],
     pda_key |-> gen_signer_key(n, GroupKey),
     target_leverage |-> target, fails |-> fails]

AddLevArgsSigned ==
    {AddLevCall(n, b, t, "none") : n \in DerivableNonces, b \in LevBaseMintKeys,
                                   t \in TargetLeverages}
    \cup {AddLevCall(n, Key("mint", 1), 3, f) : n \in DerivableNonces, f \in FailPoints}

AddLevArgsOdd ==
    LET typical == {AddLevCall(n, Key("mint", 1), 3, "none") : n \in DerivableNonces}
    IN  {[a EXCEPT !.quasar_group_ai = ForeignGroupAi] : a \in typical}
        \cup {[a EXCEPT !.admin_ai = ai] : a \in typical, ai \in UnsignedAdminAis}
        \cup {[a EXCEPT !.pda_key = k] : a \in typical, k \in PdaKeys}
        \cup {[a EXCEPT !.mango_program_key = k] : a \in typical, k \in MangoProgramIds}
        \cup {[a EXCEPT !.system_program_key = FakeProgramKey] : a \in typical}
        \cup {[a EXCEPT !.token_program_key = FakeProgramKey] : a \in typical}
        \cup {[a EXCEPT !.rent_key = FakeProgramKey] : a \in typical}
        \cup {[a EXCEPT !.base_token_mint_key = NotAMintKey] : a \in typical}

AddLevArgs == AddLevArgsSigned \cup AddLevArgsOdd

MintCall(n, account_key, quantity, fails) ==
    [quasar_group_ai |-> GoodGroupAi, base_token_mint_key |-> Key("mint", 1),
     mango_program_key |-> Key("mango", n), mango_group_key |-> MangoGroupKey,
     mango_account_key |-> account_key, owner_key |-> UserKey,
     token_program_key |-> TokenProgramId, target_leverage |-> 3,
     quantity |-> quantity, fails |-> fails]

MintArgs ==
    {MintCall(n, k, q, "none") : n \in DerivableNonces, k \in MangoAccountKeys,
                                 q \in Quantities}
    \cup {MintCall(n, k, 5, "deposit") : n \in DerivableNonces, k \in MangoAccountKeys}
    \cup {[MintCall(1, Key("mango_account", 1), 5, "none")
              EXCEPT !.quasar_group_ai = ForeignGroupAi],
          [MintCall(1, Key("mango_account", 1), 5, "none")
              EXCEPT !.token_program_key = FakeProgramKey],
          [MintCall(1, Key("mango_account", 1), 5, "none")
              EXCEPT !.target_leverage = -1, !.base_token_mint_key = NotAMintKey]}

RedeemArgs == [quasar_group_ai : {GoodGroupAi, ForeignGroupAi}, quantity : Quantities]

TestCreateArgs ==
    [signer_key : {UserKey}, owner_key : {ProgramId}, new_account_key : {NewAccountKey},
     system_program_key : {SystemProgramId, FakeProgramKey},
     fails : {"none", "create_account"}]

----------------------------------------------------------------------------
(* The state machine.                                                      *)

NoCall == [op |-> "none", result |-> Ok, cpis |-> <<>>,
           group_written |-> FALSE, oracle_written |-> FALSE]

\* No handler calls read_oracle (498-529): the instructions leave `price` alone.
NoRead == [args |-> <<>>, done |-> FALSE, result |-> Ok]

Init ==
    /\ group = ZeroGroup
    /\ oracle_magic = 0
    /\ last = NoCall
    /\ price = NoRead

\* The host runs one instruction: account data is committed when the handler
\* returns Ok and discarded otherwise.
Commit(op, r) ==
    /\ group' = IF r.result.kind = "Ok" THEN r.group ELSE group
    /\ oracle_magic' = IF r.result.kind = "Ok" THEN r.oracle_magic ELSE oracle_magic
    /\ last' = [op |-> op, result |-> r.result,
                cpis |-> [i \in DOMAIN r.cpis |-> r.cpis[i].ix],
                group_written |-> r.group # group,
                oracle_written |-> r.oracle_magic # oracle_magic]
    /\ UNCHANGED price

InitQuasarGroup ==
    \E a \in InitArgs : Commit("InitQuasarGroup", init_quasar_group(group, oracle_magic, a))

AddBaseToken ==
    \E a \in AddBaseArgs(group) : Commit("AddBaseToken", add_base_token(group, oracle_magic, a))

AddLeverageToken ==
    \E a \in AddLevArgs :
        Commit("AddLeverageToken", add_leverage_token(group, oracle_magic, a))

MintLeverageToken ==
    \E a \in MintArgs :
        Commit("MintLeverageToken", mint_leverage_token(group, oracle_magic, a))

RedeemLeverageToken ==
    \E a \in RedeemArgs :
        Commit("RedeemLeverageToken", redeem_leverage_token(group, oracle_magic, a))

TestCreateAccount ==
    \E a \in TestCreateArgs :
        Commit("TestCreateAccount", test_create_account(group, oracle_magic, a))

Next ==
    \/ InitQuasarGroup
    \/ AddBaseToken
    \/ AddLeverageToken
    \/ MintLeverageToken
    \/ RedeemLeverageToken
    \/ TestCreateAccount

Spec == Init /\ [][Next]_vars

----------------------------------------------------------------------------
(* read_oracle on its own: a price-source account and a base token are     *)
(* drawn, then the function is applied.                                    *)

\* Largest |expo| of the Pyth price accounts drawn.
MaxExpo == 20

Mantissas ==
    {Dec(0, 0), Dec(1, 0), Dec(-1, 0), Dec(12345, 0), Dec(5, 9), Dec(-5, 9),
     Dec(60446, 0), Dec(60447, 0), Dec(-60447, 0), Dec(9, 18)}
Expos == (-MaxExpo)..MaxExpo
QuoteDecimals == {0, 6, 9}

BaseTokenOf(d, oracle_key) == [mint |-> Key("mint", 1), decimals |-> d, oracle |-> oracle_key]

PythAccount(m, e) ==
    [key |-> PythOracleKey, magic |-> 0, agg_price |-> m, expo |-> e,
     stub_price |-> Dec(0, 0)]
OtherAccount(key, magic, p) ==
    [key |-> key, magic |-> magic, agg_price |-> Dec(0, 0), expo |-> 0, stub_price |-> p]

ReadOracleArgs ==
    {[base_token |-> BaseTokenOf(d, PythOracleKey), oracle |-> PythAccount(m, e),
      overflow_checks |-> oc] :
        d \in QuoteDecimals, m \in Mantissas, e \in Expos, oc \in BOOLEAN}
    \cup {[base_token |-> BaseTokenOf(6, k), oracle |-> OtherAccount(k, mg, p),
           overflow_checks |-> TRUE] :
        k \in {StubOracleKey, ForeignOracleKey}, mg \in {0, StubMagic},
        p \in {Dec(0, 0), Dec(7, 0)}}

OracleInit ==
    /\ group = ZeroGroup
    /\ oracle_magic = 0
    /\ last = NoCall
    /\ price \in {[args |-> a, done |-> FALSE, result |-> Ok] : a \in ReadOracleArgs}

ReadOracle ==
    /\ ~price.done
    /\ price' = [price EXCEPT
                    !.done = TRUE,
                    !.result = read_oracle(price.args.base_token, price.args.oracle,
                                           price.args.overflow_checks)]
    /\ UNCHANGED <<group, oracle_magic, last>>

OracleNext == ReadOracle

SpecOracle == OracleInit /\ [][OracleNext]_vars

----------------------------------------------------------------------------
(* Properties.  What a handler would do with a call in the current state:  *)

OnAddBase(a) == add_base_token(group, oracle_magic, a)
OnAddLev(a) == add_leverage_token(group, oracle_magic, a)
OnInit(a) == init_quasar_group(group, oracle_magic, a)

\* The group a call names.
Named(a) == GroupData(group, a.quasar_group_ai.key)

\* The handler returned an error value, dispatched nothing and wrote nothing.
RejectedUntouched(r) ==
    /\ r.result.kind = "Err"
    /\ r.cpis = <<>>
    /\ r.group = group
    /\ r.oracle_magic = oracle_magic

PopulatedBase == {i \in DOMAIN group.base_tokens : ~is_empty_base(group.base_tokens[i])}
PopulatedLev ==
    {i \in DOMAIN group.leverage_tokens : ~is_empty_leverage(group.leverage_tokens[i])}

\* C1: no two populated base-token slots hold the same mint, and an
\* AddBaseToken call whose mint is registered is rejected with an error and
\* leaves the group record as it was.
C1_UniqueBaseMint ==
    /\ \A i, j \in PopulatedBase :
           group.base_tokens[i].mint = group.base_tokens[j].mint => i = j
    /\ \A a \in AddBaseArgs(group) :
           find_base_token_index(Named(a), a.mint_key) # -1 =>
               LET r == OnAddBase(a) IN r.result.kind = "Err" /\ r.group = group
    /\ (last.op = "AddBaseToken" /\ last.result = Err("Default", 133)) =>
           ~last.group_written

C1_Witness ==
    /\ last.op = "AddBaseToken"
    /\ last.result = Err("Default", 133)
    /\ Cardinality(PopulatedBase) = 2

\* C2: no two populated leverage-token slots hold the same (base token,
\* target leverage), and an AddLeverageToken call whose pair is registered is
\* rejected before anything is invoked and leaves the registry as it was.
C2_UniqueLeveragePair ==
    /\ \A i, j \in PopulatedLev :
           (/\ group.leverage_tokens[i].base_token_mint
                  = group.leverage_tokens[j].base_token_mint
            /\ group.leverage_tokens[i].target_leverage
                  = group.leverage_tokens[j].target_leverage) => i = j
    /\ \A a \in AddLevArgs :
           find_leverage_token_index(Named(a), a.base_token_mint_key,
                                     a.target_leverage) # -1 =>
               LET r == OnAddLev(a)
               IN  r.result.kind = "Err" /\ r.cpis = <<>> /\ r.group = group
    /\ (last.op = "AddLeverageToken" /\ last.result = Err("Default", 200)) =>
           (last.cpis = <<>> /\ ~last.group_written)

C2_Witness ==
    /\ last.op = "AddLeverageToken"
    /\ last.result = Err("Default", 200)
    /\ Cardinality(PopulatedLev) = 2

\* A call that nothing but the registry's capacity can stop.
ValidAddBase(a) ==
    /\ load_checked(a.quasar_group_ai, group, 124) = Ok
    /\ admin_check(Named(a), a.admin_ai)
    /\ find_base_token_index(Named(a), a.mint_key) = -1
    /\ is_mint(a.mint_key)
    /\ \/ determine_oracle_type(oracle_magic, a.oracle_key) = "Pyth"
       \/ load_and_init(oracle_magic, a.oracle_key) = Ok

ValidAddLev(a) ==
    /\ load_checked(a.quasar_group_ai, group, 183) = Ok
    /\ admin_check(Named(a), a.admin_ai)
    /\ find_base_token_index(Named(a), a.base_token_mint_key) # -1
    /\ find_leverage_token_index(Named(a), a.base_token_mint_key,
                                 a.target_leverage) = -1
    /\ a.pda_key = Named(a).signer_key
    /\ a.system_program_key = SystemProgramId
    /\ a.token_program_key = TokenProgramId
    /\ a.rent_key = RentSysvarId
    /\ a.fails = "none"

\* C3: on a full registry the next otherwise-valid add call returns an error
\* value (it does not abort), invokes nothing and leaves the registry as it
\* was.
C3_FullRegistryReturnsError ==
    /\ \A a \in AddBaseArgs(group) :
           (Named(a).num_base_tokens = MAX_BASE /\ ValidAddBase(a)) =>
               LET r == OnAddBase(a)
               IN  r.result.kind = "Err" /\ r.cpis = <<>> /\ r.group = group
    /\ \A a \in AddLevArgs :
           (Named(a).num_leverage_tokens = MAX_LEV /\ ValidAddLev(a)) =>
               LET r == OnAddLev(a)
               IN  r.result.kind = "Err" /\ r.cpis = <<>> /\ r.group = group

\* The admin account of a call did not sign or is not the group's admin.
BadAdmin(a) == ~a.admin_ai.is_signer \/ a.admin_ai.key # Named(a).admin_key

\* C4: an AddBaseToken or AddLeverageToken call whose admin did not sign or
\* is not the stored admin is rejected with an error: nothing is invoked, no
\* stub oracle is written and the group is unchanged.  InitGroup is rejected
\* when the admin did not sign.
C4_AdminGate ==
    /\ \A a \in AddBaseArgs(group) : BadAdmin(a) => RejectedUntouched(OnAddBase(a))
    /\ \A a \in AddLevArgs : BadAdmin(a) => RejectedUntouched(OnAddLev(a))
    /\ \A a \in InitArgs : ~a.admin_ai.is_signer => OnInit(a).result.kind = "Err"

C4_Witness ==
    /\ group.meta_data.is_initialized
    /\ last.op = "AddBaseToken"
    /\ last.result = Err("InvalidSignerKey", 126)
    /\ ~last.oracle_written

\* The authority derived from (group address, nonce) is not this key.
NotDerived(key, nonce, group_pk) ==
    ~DerivableNonce(nonce) \/ key # gen_signer_key(nonce, group_pk)

\* C5: a call whose derived-authority account is not the derivation of
\* (group address, nonce) is rejected (it does not succeed): InitGroup for
\* the claimed nonce, AddLeverageToken for the stored nonce.  Nothing is
\* invoked and no slot is appended.
C5_DerivedAuthorityGate ==
    /\ \A a \in InitArgs :
           NotDerived(a.signer_key, a.signer_nonce, a.quasar_group_ai.key) =>
               LET r == OnInit(a)
               IN  r.result.kind = "Err" /\ r.cpis = <<>> /\ r.group = group
    /\ \A a \in AddLevArgs :
           NotDerived(a.pda_key, Named(a).signer_nonce, a.quasar_group_ai.key) =>
               LET r == OnAddLev(a)
               IN  r.result.kind # "Ok" /\ r.cpis = <<>> /\ r.group = group

C5_Witness ==
    /\ last.op = "AddLeverageToken"
    /\ last.result = Err("InvalidSignerKey", 215)
    /\ last.cpis = <<>>

\* C6: when an invocation of AddLeverageToken fails, the call returns that
\* failure and has written no slot and no count; the group is written only
\* by a call all three of whose invocations succeeded.
C6_NoPartialLeverageToken ==
    /\ \A a \in AddLevArgs :
           LET r == OnAddLev(a) IN
           /\ (r.cpis # <<>> /\ r.cpis[Len(r.cpis)].ix = a.fails) =>
                  /\ r.result = Err("CpiFailed", 0)
                  /\ r.group = group
           /\ r.group # group =>
                  /\ r.result = Ok
                  /\ [i \in DOMAIN r.cpis |-> r.cpis[i].ix]
                        = <<"init_mango_account", "create_account", "initialize_mint">>
                  /\ a.fails = "none"
    /\ (last.op = "AddLeverageToken" /\ last.result # Ok) => ~last.group_written

C6_Witness ==
    /\ last.op = "AddLeverageToken"
    /\ last.result = Err("CpiFailed", 0)
    /\ last.cpis = <<"init_mango_account", "create_account", "initialize_mint">>
    /\ group.num_leverage_tokens = 1

\* Every InitGroup call on the group account, whatever it claims.
AnyInitArgs ==
    [quasar_group_ai : {GoodGroupAi, PoorGroupAi}, signer_key : PdaKeys,
     admin_ai : AdminAis, mango_program_key : MangoProgramIds, signer_nonce : Nonces]

\* C7: once the group is initialized every InitGroup call on it fails with
\* an error and leaves admin, signer key, nonce, margin module and metadata
\* as they are.
C7_InitOnce ==
    group.meta_data.is_initialized =>
        \A a \in AnyInitArgs :
            LET r == OnInit(a) IN r.result.kind = "Err" /\ r.group = group

C7_Witness ==
    /\ group.meta_data.is_initialized
    /\ last.op = "InitQuasarGroup"
    /\ last.result = Err("Default", 96)

\* C8: a handler that returns an error has written nothing itself, neither
\* to the group record nor to the stub oracle: every check comes before the
\* handler's first write.
\* The registry is appended to last, after every invocation has succeeded.
C8_NoWriteBeforeLastCheck ==
    /\ last.result.kind # "Ok" => (~last.group_written /\ ~last.oracle_written)
    /\ (last.op = "AddLeverageToken" /\ last.group_written) =>
           last.cpis = <<"init_mango_account", "create_account", "initialize_mint">>

\* C9: each registry's count is within its capacity, the slots below the
\* count are populated and the slots from the count on are empty.
C9_CompactRegistries ==
    /\ group.num_base_tokens \in 0..MAX_BASE
    /\ group.num_leverage_tokens \in 0..MAX_LEV
    /\ \A i \in DOMAIN group.base_tokens :
           is_empty_base(group.base_tokens[i]) <=> i >= group.num_base_tokens
    /\ \A i \in DOMAIN group.leverage_tokens :
           is_empty_leverage(group.leverage_tokens[i]) <=> i >= group.num_leverage_tokens

C9_Witness ==
    /\ group.num_base_tokens = MAX_BASE
    /\ group.num_leverage_tokens = MAX_LEV
    /\ last.op = "AddLeverageToken"
    /\ last.result = Ok

\* C10: a successful AddBaseToken adds one to num_base_tokens and writes
\* (mint, the mint's decimals, oracle) at the slot the count pointed to;
\* every other slot and the leverage registry are unchanged.
C10_AppendBaseToken ==
    \A a \in AddBaseArgs(group) :
        LET r == OnAddBase(a) IN
        r.result = Ok =>
            /\ r.group.num_base_tokens = group.num_base_tokens + 1
            /\ r.group.base_tokens[group.num_base_tokens]
                  = [mint |-> a.mint_key, decimals |-> MintDecimals(a.mint_key),
                     oracle |-> a.oracle_key]
            /\ \A i \in DOMAIN group.base_tokens :
                   i # group.num_base_tokens =>
                       r.group.base_tokens[i] = group.base_tokens[i]
            /\ r.group.leverage_tokens = group.leverage_tokens
            /\ r.group.num_leverage_tokens = group.num_leverage_tokens

C10_Witness ==
    /\ last.op = "AddBaseToken"
    /\ last.result = Ok
    /\ last.group_written
    /\ group.num_base_tokens = 2
    /\ group.base_tokens[1].decimals = MintDecimals(group.base_tokens[1].mint)
    /\ group.num_leverage_tokens = 1

\* What one call may do to an initialized group: h is g, or g with one slot
\* appended to one registry.
AppendsOneBase(g, h) ==
    /\ g.num_base_tokens \in DOMAIN g.base_tokens
    /\ is_empty_base(g.base_tokens[g.num_base_tokens])
    /\ ~is_empty_base(h.base_tokens[g.num_base_tokens])
    /\ h = [g EXCEPT !.base_tokens[g.num_base_tokens] = h.base_tokens[g.num_base_tokens],
                     !.num_base_tokens = @ + 1]

AppendsOneLev(g, h) ==
    /\ g.num_leverage_tokens \in DOMAIN g.leverage_tokens
    /\ is_empty_leverage(g.leverage_tokens[g.num_leverage_tokens])
    /\ ~is_empty_leverage(h.leverage_tokens[g.num_leverage_tokens])
    /\ h = [g EXCEPT !.leverage_tokens[g.num_leverage_tokens]
                         = h.leverage_tokens[g.num_leverage_tokens],
                     !.num_leverage_tokens = @ + 1]

GroupFrame(g, h) ==
    /\ h.admin_key = g.admin_key
    /\ h.signer_key = g.signer_key
    /\ h.signer_nonce = g.signer_nonce
    /\ h.mango_program_id = g.mango_program_id
    /\ h.meta_data = g.meta_data
    /\ \A i \in DOMAIN g.base_tokens :
           ~is_empty_base(g.base_tokens[i]) => h.base_tokens[i] = g.base_tokens[i]
    /\ \A i \in DOMAIN g.leverage_tokens :
           ~is_empty_leverage(g.leverage_tokens[i]) =>
               h.leverage_tokens[i] = g.leverage_tokens[i]
    /\ h.num_base_tokens >= g.num_base_tokens
    /\ h.num_leverage_tokens >= g.num_leverage_tokens
    /\ h = g \/ AppendsOneBase(g, h) \/ AppendsOneLev(g, h)

\* C11: once the group is initialized, every call of every handler, failed
\* ones included, leaves admin, signer key, nonce, margin module and metadata
\* as they are, keeps every populated slot at its index with its contents,
\* never lowers a count, and changes the group at most by appending one slot
\* to one registry; a call that does not return Ok changes nothing.
C11_InitializedGroupFrame ==
    [][group.meta_data.is_initialized =>
          /\ GroupFrame(group, group')
          /\ last'.result.kind # "Ok" => group' = group]_vars

C11_Witness ==
    /\ group.meta_data.is_initialized
    /\ last.op = "MintLeverageToken"
    /\ last.result = Ok
    /\ group.num_base_tokens = 2
    /\ group.num_leverage_tokens = 1

\* The invocations of a call that carry signer seeds.
SignedCpis(r) == {i \in DOMAIN r.cpis : r.cpis[i].seeds # <<>>}

\* C12: the stored signer key of an initialized group is the derivation of
\* (group address, stored nonce), and every invocation AddLeverageToken signs
\* carries the seeds of (group address, stored nonce), which derive the
\* stored signer key; the authority it names as signer is that key.
C12_SignerKeyIsDerived ==
    /\ group.meta_data.is_initialized =>
           /\ DerivableNonce(group.signer_nonce)
           /\ group.signer_key = gen_signer_key(group.signer_nonce, GroupKey)
    /\ \A a \in AddLevArgs :
           LET r == OnAddLev(a) IN
           /\ \A i \in SignedCpis(r) :
                  /\ r.cpis[i].seeds
                        = <<gen_signer_seeds(group.signer_nonce, a.quasar_group_ai.key)>>
                  /\ gen_signer_key(r.cpis[i].seeds[1][2], r.cpis[i].seeds[1][1])
                        = Named(a).signer_key
                  /\ a.pda_key = Named(a).signer_key
           /\ r.cpis # <<>> => 1 \in SignedCpis(r)

C12_Witness ==
    /\ group.meta_data.is_initialized
    /\ group.signer_nonce = 2
    /\ group.signer_key = gen_signer_key(2, GroupKey)
    /\ last.op = "AddLeverageToken"
    /\ last.result = Ok
    /\ last.cpis = <<"init_mango_account", "create_account", "initialize_mint">>


\* The names of the invocations a call dispatched, in order.
CpiNames(r) == [i \in DOMAIN r.cpis |-> r.cpis[i].ix]

AddLevSteps == <<"init_mango_account", "create_account", "initialize_mint">>

\* C13: the invocations of an AddLeverageToken call are a prefix of (open
\* margin account, create mint account, initialize mint).  Anything is
\* dispatched only after the base token was found, the pair was found new,
\* the next slot exists and is empty, and the supplied authority is the stored
\* signer key.  The margin account is opened with the derived authority as
\* signer; the mint account is created only after that succeeded, funded by
\* the admin; the mint is initialized only after that succeeded, with mint
\* and freeze authority both the derived authority; the slot is appended only
\* after all three succeeded.
C13_AddLeverageTokenOrder ==
    \A a \in AddLevArgs :
        LET r == OnAddLev(a)
            g == Named(a)
            n == Len(r.cpis)
            seeds == <<gen_signer_seeds(g.signer_nonce, a.quasar_group_ai.key)>>
        IN
        /\ n <= 3
        /\ CpiNames(r) = SubSeq(AddLevSteps, 1, n)
        /\ n >= 1 =>
               /\ find_base_token_index(g, a.base_token_mint_key) # -1
               /\ find_leverage_token_index(g, a.base_token_mint_key,
                                            a.target_leverage) = -1
               /\ g.num_leverage_tokens < MAX_LEV
               /\ is_empty_leverage(g.leverage_tokens[g.num_leverage_tokens])
               /\ a.pda_key = g.signer_key
               /\ r.cpis[1].signers = <<g.signer_key>>
               /\ r.cpis[1].seeds = seeds
               /\ r.cpis[1].accounts[2] = a.mango_account_key
        /\ n >= 2 =>
               /\ a.fails # "init_mango_account"
               /\ r.cpis[2].program_id = SystemProgramId
               /\ r.cpis[2].accounts = <<a.admin_ai.key, a.mint_key>>
               /\ r.cpis[2].data = <<MintLen, TokenProgramId>>
        /\ n >= 3 =>
               /\ a.fails # "create_account"
               /\ r.cpis[3].program_id = TokenProgramId
               /\ r.cpis[3].accounts[1] = a.mint_key
               /\ r.cpis[3].data = <<g.signer_key, g.signer_key, LeverageTokenDecimals>>
               /\ r.cpis[3].seeds = seeds
        /\ n < 3 => r.result.kind # "Ok" /\ r.group = group
        /\ r.group # group => (n = 3 /\ a.fails = "none" /\ r.group = alt_append(g, a))

C13_Witness ==
    /\ last.op = "AddLeverageToken"
    /\ last.result = Err("CpiFailed", 0)
    /\ last.cpis = <<"init_mango_account">>
    /\ ~last.group_written


OnMint(a) == mint_leverage_token(group, oracle_magic, a)
OnRedeem(a) == redeem_leverage_token(group, oracle_magic, a)
OnTestCreate(a) == test_create_account(group, oracle_magic, a)

\* A helper rejected the call before dispatching anything.
HelperRejected(h) == h.result.kind = "Err" /\ h.cpis = <<>>

\* C14: a helper that is handed a system program, token program or rent
\* sysvar account that is not the well-known one returns an error and
\* dispatches nothing: create_account, create_and_initialize_mint_account,
\* and deposit_to_mango_account for its token program account.
C14_HelpersCheckCollaborators ==
    /\ \A a \in TestCreateArgs :
           a.system_program_key # SystemProgramId =>
               HelperRejected(create_account(a.signer_key, a.new_account_key, 10,
                                             a.owner_key, a.system_program_key, a.fails))
    /\ \A a \in AddLevArgs :
           (\/ a.token_program_key # TokenProgramId
            \/ a.system_program_key # SystemProgramId
            \/ a.rent_key # RentSysvarId) =>
               HelperRejected(create_and_initialize_mint_account(
                   a.admin_ai.key, a.mint_key, a.pda_key, a.token_program_key,
                   a.system_program_key, a.rent_key, <<>>, LeverageTokenDecimals, a.fails))
    /\ \A a \in MintArgs :
           (/\ load_checked(a.quasar_group_ai, group, 266) = Ok
            /\ a.token_program_key # TokenProgramId) =>
               HelperRejected(OnMint(a))

\* C15: MintLeverageToken leaves the group and the oracle as they are.  When
\* the group does not load it returns that error and invokes nothing.  When
\* it loads, the call makes one invocation, the margin program's deposit of
\* the given quantity into the supplied margin account with the depositor as
\* signer and no seeds of the derived authority, and returns what that
\* invocation returned.
C15_MintDepositsOnce ==
    /\ \A a \in MintArgs :
           LET r == OnMint(a)
               lc == load_checked(a.quasar_group_ai, group, 266)
           IN
           /\ r.group = group
           /\ r.oracle_magic = oracle_magic
           /\ lc # Ok => (r.result = lc /\ r.cpis = <<>>)
           /\ lc = Ok =>
                  /\ Len(r.cpis) = 1
                  /\ r.cpis[1].ix = "deposit"
                  /\ r.cpis[1].program_id = a.mango_program_key
                  /\ r.cpis[1].accounts[2] = a.mango_account_key
                  /\ r.cpis[1].data = <<a.quantity>>
                  /\ r.cpis[1].signers = <<a.owner_key>>
                  /\ r.cpis[1].seeds = <<<<>>>>
                  /\ r.result = CpiResult("deposit", a.fails)
           /\ r.result = Ok <=> (lc = Ok /\ a.fails # "deposit")
    /\ last.op = "MintLeverageToken" =>
           /\ ~last.group_written
           /\ ~last.oracle_written
           /\ last.cpis \in {<<>>, <<"deposit">>}
           /\ last.result = Ok => last.cpis = <<"deposit">>

C15_Witness ==
    /\ last.op = "MintLeverageToken"
    /\ last.result = Err("CpiFailed", 0)
    /\ last.cpis = <<"deposit">>
    /\ group.meta_data.is_initialized

\* The group has a leverage token for the call's (base token, target
\* leverage) whose margin account is the one the call supplies.
BoundMarginAccount(a) ==
    \E i \in PopulatedLev :
        /\ group.leverage_tokens[i].base_token_mint = a.base_token_mint_key
        /\ group.leverage_tokens[i].target_leverage = a.target_leverage
        /\ group.leverage_tokens[i].mango_account = a.mango_account_key

\* C16: MintLeverageToken dispatches the deposit only into the margin
\* account bound to the leverage token of the call's (base token, target
\* leverage); any other call is rejected with an error and dispatches nothing.
C16_DepositIntoBoundAccount ==
    \A a \in MintArgs :
        ~BoundMarginAccount(a) => HelperRejected(OnMint(a))

\* C17: RedeemLeverageToken returns Ok for every quantity and every account
\* list, initialized group or not, invokes nothing and writes nothing.
C17_RedeemIsNoOp ==
    /\ \A a \in RedeemArgs : OnRedeem(a) = Ret(Ok, group, oracle_magic, <<>>)
    /\ last.op = "RedeemLeverageToken" =>
           /\ last.result = Ok
           /\ last.cpis = <<>>
           /\ ~last.group_written
           /\ ~last.oracle_written

C17_Witness ==
    /\ last.op = "RedeemLeverageToken"
    /\ last.result = Ok
    /\ ~group.meta_data.is_initialized


\* The invocations of a call that go to a margin program.
MarginCpis(r) ==
    {i \in DOMAIN r.cpis : r.cpis[i].ix \in {"init_mango_account", "deposit"}}

\* C19: every invocation of the margin program that AddLeverageToken or
\* MintLeverageToken dispatches goes to the program the group stores as its
\* margin program, and a call that supplies another margin program account
\* is rejected and dispatches nothing.
C19_BoundMarginModule ==
    /\ \A a \in AddLevArgs :
           LET r == OnAddLev(a) IN
           /\ \A i \in MarginCpis(r) : r.cpis[i].program_id = Named(a).mango_program_id
           /\ a.mango_program_key # Named(a).mango_program_id =>
                  (r.result.kind # "Ok" /\ r.cpis = <<>>)
    /\ \A a \in MintArgs :
           LET r == OnMint(a) IN
           /\ \A i \in MarginCpis(r) : r.cpis[i].program_id = Named(a).mango_program_id
           /\ a.mango_program_key # Named(a).mango_program_id =>
                  (r.result.kind # "Ok" /\ r.cpis = <<>>)

\* C20: the base token of every populated leverage-token slot is the mint of
\* a populated base-token slot, and an AddLeverageToken call for a mint that
\* is not registered returns an error, invokes nothing and appends nothing.
C20_LeverageBaseRegistered ==
    /\ \A i \in PopulatedLev :
           \E j \in PopulatedBase :
               group.base_tokens[j].mint = group.leverage_tokens[i].base_token_mint
    /\ \A a \in AddLevArgs :
           find_base_token_index(Named(a), a.base_token_mint_key) = -1 =>
               LET r == OnAddLev(a)
               IN  r.result.kind = "Err" /\ r.cpis = <<>> /\ r.group = group
    /\ (last.op = "AddLeverageToken" /\ last.result = Err("InvalidAccount", 192)) =>
           (last.cpis = <<>> /\ ~last.group_written)

C20_Witness ==
    /\ group.num_leverage_tokens = 2
    /\ group.leverage_tokens[0].base_token_mint # group.leverage_tokens[1].base_token_mint
    /\ last.op = "AddLeverageToken"
    /\ last.result = Err("InvalidAccount", 192)


\* read_oracle was applied to an external-feed (Pyth) price account whose
\* exponent e has 10^|e| below 2^64.
PythReadInDomain ==
    /\ price.done
    /\ price.args.oracle.key = PythOracleKey
    /\ BLess(BPow(10, Abs(price.args.oracle.expo)), BPow2(64))

\* m / 10^k in 2^-48 units, truncated, and m * 10^k
ExpectedQuotient(m, k) ==
    Fixed(m.neg, BDivMod(BShiftLeft(m.mag, FracLimbs), BPow(10, k))[1])
ExpectedProduct(m, k) == Fixed(m.neg, BShiftLeft(BMul(m.mag, BPow(10, k)), FracLimbs))
ExpectedPrice(m, e) == IF e < 0 THEN ExpectedQuotient(m, -e) ELSE ExpectedProduct(m, e)

Fifty == Fixed(FALSE, BShiftLeft(BFromNat(50), FracLimbs))

WorkedExample ==
    /\ price.args.base_token.decimals = 6
    /\ price.args.oracle.expo = -8
    /\ price.args.oracle.agg_price = Dec(5, 9)

\* The result does not depend on the base token's decimals.
SameForEveryDecimals ==
    \A d \in QuoteDecimals :
        read_oracle([price.args.base_token EXCEPT !.decimals = d], price.args.oracle,
                    price.args.overflow_checks) = price.result

====
